---- MODULE Spec2Model ----
(***************************************************************************)
(* Model of two files of the massa repository:                             *)
(*   massa-pos-exports/src/deferred_credits.rs   (DeferredCredits ledger)  *)
(*   massa-consensus-worker/src/controller.rs    (ConsensusControllerImpl) *)
(*                                                                         *)
(* A Hash is modelled as an element of a GF(2) vector space: a set of bit  *)
(* positions, with ^ (XOR) the symmetric difference.  Hash::compute_from   *)
(* is a cryptographic hash: distinct inputs get distinct, XOR-independent  *)
(* digests, so each input owns one bit position.                           *)
(***************************************************************************)
EXTENDS Integers, Sequences, FiniteSets, TLC

\* ---------------------------------------------------------------- bounds
MaxSlot == 2
NumAddresses == 2
MaxAmount == 1
MaxDeltaCredits == 2
\* Blocks known to the consensus state; block b sits at slot b.
NumBlocks == 5
\* The batch cap of get_bootstrap_part (the literal 100 of controller.rs:133),
\* scaled down so that a state with more eligible blocks than the cap is small.
MAX_BOOTSTRAP_BLOCKS == 2
\* Capacity of the bounded command channel (set where the channel is created).
CHANNEL_SIZE == 2
\* Block ids carried by the commands submitted through the controller.
NumCommandBlocks == 2
\* Threads of a Slot, and the largest thread_count given to the deserializer.
THREAD_COUNT == 2
\* The largest max_credits_length given to the deserializer.
MaxCreditsLength == 2

Slots == 1..MaxSlot
Addresses == 1..NumAddresses
Amounts == 0..MaxAmount

BlockIds == 1..NumBlocks

VARIABLES
    \* DeferredCredits: the instance, and the last operation applied to it
    dc, op, arg, pre,
    \* ConsensusState read by get_bootstrap_part
    block_statuses, required,
    \* the last get_bootstrap_part call and the cursor chain it belongs to
    b_cursor, b_exec, b_ret, delivered, chain, barrier,
    \* the command channel, its receiving worker and the shared state
    channel, receiver_alive, shared_state,
    \* the last step on the channel: what ran, its command, what try_send
    \* answered, what the caller got back, and the state before it
    f_op, f_cmd, f_sent, f_ret, f_pre,
    \* the codec: the ledger handed to the serializer and the iteration order
    \* of its PreHashMaps, the bytes written, the parameters given to
    \* DeferredCreditsDeserializer::new, what deserialize returned, and the
    \* codec step made last
    c_value, c_order, c_buffer, c_cfg, c_result, c_op

ledger_vars == <<dc, op, arg, pre>>
consensus_vars == <<block_statuses, required>>
bootstrap_vars == <<b_cursor, b_exec, b_ret, delivered, chain, barrier>>
facade_vars == <<channel, receiver_alive, shared_state,
                 f_op, f_cmd, f_sent, f_ret, f_pre>>
codec_vars == <<c_value, c_order, c_buffer, c_cfg, c_result, c_op>>
vars == <<dc, op, arg, pre, block_statuses, required,
          b_cursor, b_exec, b_ret, delivered, chain, barrier,
          channel, receiver_alive, shared_state, f_op, f_cmd, f_sent, f_ret, f_pre,
          c_value, c_order, c_buffer, c_cfg, c_result, c_op>>

\* ------------------------------------------------------------ map helpers
EmptyMap == [x \in {} |-> 0]

MapPut(m, k, v) == [x \in (DOMAIN m) \cup {k} |-> IF x = k THEN v ELSE m[x]]

\* All PreHashMap<Address, Amount> values over the bounded domains.
CreditMaps == UNION {[as -> Amounts] : as \in SUBSET Addresses}

\* All BTreeMap<Slot, PreHashMap<Address, Amount>> values.
CreditLedgers == UNION {[ss -> CreditMaps] : ss \in SUBSET Slots}

RECURSIVE SumOver(_, _)
SumOver(f, S) ==
    IF S = {} THEN 0
    ELSE LET x == CHOOSE y \in S : TRUE IN f[x] + SumOver(f, S \ {x})

CreditCount(cr) ==
    SumOver([s \in DOMAIN cr |-> Cardinality(DOMAIN cr[s])], DOMAIN cr)

\* The `other` arguments of nested_replace / final_nested_replace.
Deltas == {cr \in CreditLedgers : CreditCount(cr) <= MaxDeltaCredits}

\* ------------------------------------------------------------------ Hash
ZeroHash == {}

HashXor(h1, h2) == (h1 \ h2) \cup (h2 \ h1)

DEFERRED_CREDITS_HASH_INITIAL_BYTES == ZeroHash

\* Hash::compute_from(slot_ser(slot))
SlotDigest(slot) == {slot}

compute_single_credit_hash(address, amount) ==
    {MaxSlot + (address - 1) * (MaxAmount + 1) + amount + 1}

RECURSIVE XorCredits(_, _, _)
XorCredits(h, credits, todo) ==
    IF todo = {} THEN h
    ELSE LET a == CHOOSE x \in todo : TRUE
         IN XorCredits(HashXor(h, compute_single_credit_hash(a, credits[a])),
                       credits, todo \ {a})

compute_slot_credits_hash(slot, credits) ==
    XorCredits(SlotDigest(slot), credits, DOMAIN credits)

DefaultDeferredCredits ==
    [credits |-> EmptyMap, hash |-> DEFERRED_CREDITS_HASH_INITIAL_BYTES]

\* The hash recomputed from scratch: the empty-ledger baseline combined with
\* digest(slot) of every slot present and digest(address, amount) of every
\* credit present.
RECURSIVE RecomputeOver(_, _, _)
RecomputeOver(h, credits, todo) ==
    IF todo = {} THEN h
    ELSE LET s == CHOOSE x \in todo : TRUE
         IN RecomputeOver(HashXor(h, compute_slot_credits_hash(s, credits[s])),
                          credits, todo \ {s})

RecomputeHash(credits) ==
    RecomputeOver(DEFERRED_CREDITS_HASH_INITIAL_BYTES, credits, DOMAIN credits)

\* --------------------------------------------------------- DeferredCredits
Min(S) == CHOOSE x \in S : \A y \in S : x <= y

\* The and_modify closure on the address entry (lines 107-116): runs only when
\* the address is already credited in the slot.
AndModifyCredit(st, address, other_amount) ==
    IF address \in DOMAIN st.cur
    THEN [cur |-> MapPut(st.cur, address, other_amount),
          hash |-> HashXor(HashXor(st.hash,
                                   compute_single_credit_hash(address, st.cur[address])),
                           compute_single_credit_hash(address, other_amount))]
    ELSE st

\* The argument of or_insert on the address entry (lines 117-123) is a block
\* expression: Rust evaluates it before or_insert is called, whether the entry
\* is occupied or vacant, so its XOR into self.hash always happens.
OrInsertCreditArg(st, address, other_amount) ==
    [cur |-> st.cur,
     hash |-> HashXor(st.hash, compute_single_credit_hash(address, other_amount))]

\* or_insert itself: inserts only into a vacant entry.
OrInsertCredit(st, address, value) ==
    IF address \in DOMAIN st.cur THEN st
    ELSE [cur |-> MapPut(st.cur, address, value), hash |-> st.hash]

FinalCreditStep(st, address, other_amount) ==
    OrInsertCredit(
        OrInsertCreditArg(AndModifyCredit(st, address, other_amount),
                          address, other_amount),
        address, other_amount)

\* for (address, other_amount) in other_credits.iter()  (lines 104-124)
RECURSIVE FinalCreditsLoop(_, _, _)
FinalCreditsLoop(st, other_credits, todo) ==
    IF todo = {} THEN st
    ELSE LET a == Min(todo)
         IN FinalCreditsLoop(FinalCreditStep(st, a, other_credits[a]),
                             other_credits, todo \ {a})

\* The argument of or_insert on the slot entry (lines 127-132): the slot's
\* aggregate hash is computed and the value dropped; self.hash is not assigned.
OrInsertSlotArg(self, slot, other_credits) == self

\* One iteration of the loop over other.credits (lines 99-133).
FinalSlotStep(self, slot, other_credits) ==
    LET modified ==
            IF slot \in DOMAIN self.credits
            THEN LET r == FinalCreditsLoop(
                              [cur |-> self.credits[slot], hash |-> self.hash],
                              other_credits, DOMAIN other_credits)
                 IN [credits |-> MapPut(self.credits, slot, r.cur), hash |-> r.hash]
            ELSE self
        evaluated == OrInsertSlotArg(modified, slot, other_credits)
    IN IF slot \in DOMAIN self.credits THEN evaluated
       ELSE [credits |-> MapPut(evaluated.credits, slot, other_credits),
             hash |-> evaluated.hash]

\* BTreeMap iteration: ascending slots.
RECURSIVE FinalSlotsLoop(_, _, _)
FinalSlotsLoop(self, other, todo) ==
    IF todo = {} THEN self
    ELSE LET s == Min(todo)
         IN FinalSlotsLoop(FinalSlotStep(self, s, other[s]), other, todo \ {s})

final_nested_replace(self, other) == FinalSlotsLoop(self, other, DOMAIN other)

\* Mutation of NestedSlotStep: the slot's credit map is replaced whole.
NestedSlotStep_ReplaceSlot(self, slot, other_credits) ==
    [credits |-> MapPut(self.credits, slot, other_credits), hash |-> self.hash]

\* nested_replace (lines 80-94): the same merge, self.hash untouched.
NestedSlotStep(self, slot, other_credits) ==
    IF slot \in DOMAIN self.credits
    THEN LET current_credits == self.credits[slot]
             merged == [a \in (DOMAIN current_credits) \cup (DOMAIN other_credits) |->
                           IF a \in DOMAIN other_credits THEN other_credits[a]
                           ELSE current_credits[a]]
         IN [credits |-> MapPut(self.credits, slot, merged), hash |-> self.hash]
    ELSE [credits |-> MapPut(self.credits, slot, other_credits), hash |-> self.hash]

RECURSIVE NestedSlotsLoop(_, _, _)
NestedSlotsLoop(self, other, todo) ==
    IF todo = {} THEN self
    ELSE LET s == Min(todo)
         IN NestedSlotsLoop(NestedSlotStep(self, s, other[s]), other, todo \ {s})

nested_replace(self, other) == NestedSlotsLoop(self, other, DOMAIN other)

\* Mutation of RetainNonZero: the retain predicate inverted (amount.is_zero()).
RetainNonZero_Inverted(credits) ==
    [a \in {x \in DOMAIN credits : credits[x] = 0} |-> credits[a]]

\* credits.retain(|_addr, amount| !amount.is_zero())  (line 141)
RetainNonZero(credits) ==
    [a \in {x \in DOMAIN credits : credits[x] # 0} |-> credits[a]]

\* One iteration of the first loop of remove_zeros (lines 140-146).
\* st.delete_slots is the Vec of slots to remove afterwards.
RemoveZerosStep(st, slot) ==
    LET credits == RetainNonZero(st.credits[slot])
        kept == MapPut(st.credits, slot, credits)
    IN IF credits = EmptyMap
       THEN [credits |-> kept,
             hash |-> HashXor(st.hash, compute_slot_credits_hash(slot, credits)),
             delete_slots |-> st.delete_slots \cup {slot}]
       ELSE [credits |-> kept, hash |-> st.hash, delete_slots |-> st.delete_slots]

RECURSIVE RemoveZerosLoop(_, _)
RemoveZerosLoop(st, todo) ==
    IF todo = {} THEN st
    ELSE LET s == Min(todo) IN RemoveZerosLoop(RemoveZerosStep(st, s), todo \ {s})

remove_zeros(self) ==
    LET st == RemoveZerosLoop(
                  [credits |-> self.credits, hash |-> self.hash, delete_slots |-> {}],
                  DOMAIN self.credits)
    IN [credits |-> [s \in (DOMAIN st.credits) \ st.delete_slots |-> st.credits[s]],
        hash |-> st.hash]

\* Mutation of insert: the digest of the new credit is combined into the hash.
insert_Hashed(self, addr, slot, amount) ==
    LET entry == IF slot \in DOMAIN self.credits THEN self.credits[slot] ELSE EmptyMap
    IN [credits |-> MapPut(self.credits, slot, MapPut(entry, addr, amount)),
        hash |-> HashXor(self.hash, compute_single_credit_hash(addr, amount))]

\* insert (lines 169-172): entry(slot).or_default(), then insert(addr, amount).
insert(self, addr, slot, amount) ==
    LET entry == IF slot \in DOMAIN self.credits THEN self.credits[slot] ELSE EmptyMap
    IN [credits |-> MapPut(self.credits, slot, MapPut(entry, addr, amount)),
        hash |-> self.hash]

None == [some |-> FALSE, v |-> 0]

Some(x) == [some |-> TRUE, v |-> x]

get_address_deferred_credit_for_slot(self, addr, slot) ==
    IF slot \in DOMAIN self.credits /\ addr \in DOMAIN self.credits[slot]
    THEN Some(self.credits[slot][addr])
    ELSE None

\* ------------------------------------------------------- ledger operations
\* dc is the DeferredCredits instance; op, arg and pre record the last
\* operation applied to it, its argument and the instance before it.
NoArg == [other |-> EmptyMap, addr |-> 0, slot |-> 0, amount |-> 0]

InitLedger ==
    /\ dc = DefaultDeferredCredits
    /\ op = "none"
    /\ arg = NoArg
    /\ pre = DefaultDeferredCredits

FinalNestedReplace ==
    /\ op = "none"
    /\ \E other \in Deltas :
          /\ dc' = final_nested_replace(dc, other)
          /\ arg' = [NoArg EXCEPT !.other = other]
    /\ op' = "final_nested_replace"
    /\ pre' = dc
    /\ UNCHANGED <<consensus_vars, bootstrap_vars, facade_vars, codec_vars>>

NestedReplace ==
    /\ op = "none"
    /\ \E other \in Deltas :
          /\ dc' = nested_replace(dc, other)
          /\ arg' = [NoArg EXCEPT !.other = other]
    /\ op' = "nested_replace"
    /\ pre' = dc
    /\ UNCHANGED <<consensus_vars, bootstrap_vars, facade_vars, codec_vars>>

RemoveZeros ==
    /\ op = "none"
    /\ dc' = remove_zeros(dc)
    /\ op' = "remove_zeros"
    /\ arg' = NoArg
    /\ pre' = dc
    /\ UNCHANGED <<consensus_vars, bootstrap_vars, facade_vars, codec_vars>>

Insert ==
    /\ op = "none"
    /\ \E addr \in Addresses, slot \in Slots, amount \in Amounts :
          /\ dc' = insert(dc, addr, slot, amount)
          /\ arg' = [NoArg EXCEPT !.addr = addr, !.slot = slot, !.amount = amount]
    /\ op' = "insert"
    /\ pre' = dc
    /\ UNCHANGED <<consensus_vars, bootstrap_vars, facade_vars, codec_vars>>

\* The caller takes the result and is ready for the next operation.
Return ==
    /\ op # "none"
    /\ op' = "none"
    /\ arg' = NoArg
    /\ pre' = dc
    /\ dc' = dc
    /\ UNCHANGED <<consensus_vars, bootstrap_vars, facade_vars, codec_vars>>

\* ------------------------------------------------------------ StreamingStep
Started == [tag |-> "Started", some |-> FALSE, slot |-> 0]

Ongoing(slot) == [tag |-> "Ongoing", some |-> TRUE, slot |-> slot]

FinishedNone == [tag |-> "Finished", some |-> FALSE, slot |-> 0]

FinishedSome(slot) == [tag |-> "Finished", some |-> TRUE, slot |-> slot]

\* StreamingStep::finished()
finished(step) == step.tag = "Finished"

\* ----------------------------------------------------------- ConsensusState
\* What a block id can be in the consensus state:
\*   "unlisted"  not returned by list_required_active_blocks
\*   "missing"   listed, no entry in block_statuses
\*   "discarded" listed, entry is not BlockStatus::Active
\*   "active"    listed, BlockStatus::Active with is_final = false
\*   "final"     listed, BlockStatus::Active with is_final = true
BlockKinds == {"unlisted", "missing", "discarded", "active", "final"}

SlotOf(b) == b

StatusesOf(kind) ==
    [b \in {x \in BlockIds : kind[x] \in {"discarded", "active", "final"}} |->
        [status |-> IF kind[b] = "discarded" THEN "Discarded" ELSE "Active",
         is_final |-> kind[b] = "final",
         slot |-> SlotOf(b)]]

RECURSIVE AscendingSeq(_)
AscendingSeq(S) ==
    IF S = {} THEN << >>
    ELSE LET m == Min(S) IN <<m>> \o AscendingSeq(S \ {m})

\* list_required_active_blocks(): the required block ids, in ascending slot order.
RequiredOf(kind) == AscendingSeq({b \in BlockIds : kind[b] # "unlisted"})

IsActive(statuses, b_id) ==
    b_id \in DOMAIN statuses /\ statuses[b_id].status = "Active"

\* ------------------------------------------------------- get_bootstrap_part
Ok(final_blocks, cursor) == [kind |-> "ok", final_blocks |-> final_blocks, cursor |-> cursor]

ContainerInconsistency == [kind |-> "err", final_blocks |-> << >>, cursor |-> Started]

NoCall == [kind |-> "none", final_blocks |-> << >>, cursor |-> Started]

\* Mutation of FinishedReturn: the cursor passed in is handed back.
FinishedReturn_Echo(cursor) == Ok(<< >>, cursor)

\* lines 98-105: the early return on a finished cursor.
FinishedReturn(cursor) == Ok(<< >>, FinishedNone)

\* Mutation of Retained: the slot comparison made inclusive (>=).
Retained_Inclusive(statuses, cursor, b_id) ==
    /\ IsActive(statuses, b_id)
    /\ statuses[b_id].is_final
    /\ \/ cursor.tag = "Started"
       \/ cursor.tag = "Ongoing" /\ statuses[b_id].slot >= cursor.slot

\* The retain predicate (lines 110-123).
Retained(statuses, cursor, b_id) ==
    IF IsActive(statuses, b_id)
    THEN IF statuses[b_id].is_final
         THEN CASE cursor.tag = "Started" -> TRUE
                [] cursor.tag = "Ongoing" /\ statuses[b_id].slot > cursor.slot -> TRUE
                [] OTHER -> FALSE
         ELSE FALSE
    ELSE FALSE

\* Mutation of BatchFull: the cap test off by one (>).
BatchFull_OffByOne(final_blocks) == Len(final_blocks) > MAX_BOOTSTRAP_BLOCKS

\* Whether the batch is full (line 133).
BatchFull(final_blocks) == Len(final_blocks) >= MAX_BOOTSTRAP_BLOCKS

\* Mutation of AtBarrier: the batch stops only at a block beyond the slot the
\* execution stream finished at.
AtBarrier_BeyondSlot(execution_cursor, a_block) ==
    /\ execution_cursor.tag = "Finished"
    /\ execution_cursor.some
    /\ execution_cursor.slot < a_block.slot

\* Mutation of AtBarrier: any Finished execution cursor stops the batch.
AtBarrier_AnyFinished(execution_cursor, a_block) ==
    execution_cursor.tag = "Finished"

\* Mutation of AtBarrier: the execution cursor is never consulted.
AtBarrier_Ignored(execution_cursor, a_block) == FALSE

\* Whether the block pushed last is the one the execution stream finished at
\* (lines 137-138).
AtBarrier(execution_cursor, a_block) ==
    /\ execution_cursor.tag = "Finished"
    /\ execution_cursor.some
    /\ execution_cursor.slot = a_block.slot

\* Mutation of NextCursor: the cursor lags one slot behind the block pushed.
NextCursor_Previous(a_block) == Ongoing(a_block.slot - 1)

\* current_cursor = StreamingStep::Ongoing(a_block.slot)  (line 143)
NextCursor(a_block) == Ongoing(a_block.slot)

\* for b_id in &required_final_blocks  (lines 128-150), from index i on.
RECURSIVE ExportLoop(_, _, _, _, _, _)
ExportLoop(statuses, required_final_blocks, execution_cursor, i, final_blocks, cursor) ==
    IF i > Len(required_final_blocks) THEN Ok(final_blocks, cursor)
    ELSE LET b_id == required_final_blocks[i]
         IN IF IsActive(statuses, b_id)
            THEN IF BatchFull(final_blocks) THEN Ok(final_blocks, cursor)
                 ELSE LET a_block == statuses[b_id]
                          pushed == Append(final_blocks, b_id)
                      IN IF AtBarrier(execution_cursor, a_block)
                         THEN Ok(pushed, FinishedSome(a_block.slot))
                         ELSE ExportLoop(statuses, required_final_blocks,
                                         execution_cursor, i + 1, pushed,
                                         NextCursor(a_block))
            ELSE ContainerInconsistency

get_bootstrap_part(statuses, required_list, cursor, execution_cursor) ==
    IF finished(cursor) THEN FinishedReturn(cursor)
    ELSE LET required_final_blocks ==
                 SelectSeq(required_list, LAMBDA b_id : Retained(statuses, cursor, b_id))
         IN ExportLoop(statuses, required_final_blocks, execution_cursor, 1,
                       << >>, cursor)

\* --------------------------------------------------------- bootstrap calls
ExecutionCursors ==
    {Started, Ongoing(1), FinishedNone} \cup {FinishedSome(s) : s \in 1..(NumBlocks + 1)}

InputCursors ==
    {Started, FinishedNone}
        \cup {Ongoing(s) : s \in 0..NumBlocks}
        \cup {FinishedSome(s) : s \in 1..NumBlocks}

InitConsensus ==
    \E kind \in [BlockIds -> BlockKinds] :
        /\ block_statuses = StatusesOf(kind)
        /\ required = RequiredOf(kind)

IdleConsensus ==
    /\ block_statuses = EmptyMap
    /\ required = << >>

InitBootstrapCalls ==
    /\ b_cursor = Started
    /\ b_exec = Started
    /\ b_ret = NoCall
    /\ delivered = << >>
    /\ chain = FALSE
    /\ barrier = 0

BarrierAfter(ret, old) ==
    IF ret.cursor.tag = "Finished" /\ ret.cursor.some THEN ret.cursor.slot ELSE old

\* A bootstrap client starts a stream: the first call carries Started.
StartStream ==
    /\ b_ret.kind = "none"
    /\ \E e \in ExecutionCursors :
        LET ret == get_bootstrap_part(block_statuses, required, Started, e)
        IN /\ b_cursor' = Started
           /\ b_exec' = e
           /\ b_ret' = ret
           /\ chain' = (ret.kind = "ok")
           /\ delivered' = ret.final_blocks
           /\ barrier' = BarrierAfter(ret, 0)
           /\ UNCHANGED <<consensus_vars, ledger_vars, facade_vars, codec_vars>>

\* The client feeds the cursor it was returned into the next call.
ContinueStream ==
    /\ chain
    /\ \E e \in ExecutionCursors :
        LET ret == get_bootstrap_part(block_statuses, required, b_ret.cursor, e)
        IN /\ b_cursor' = b_ret.cursor
           /\ b_exec' = e
           /\ b_ret' = ret
           /\ chain' = (ret.kind = "ok")
           /\ delivered' = delivered \o ret.final_blocks
           /\ barrier' = BarrierAfter(ret, barrier)
           /\ UNCHANGED <<consensus_vars, ledger_vars, facade_vars, codec_vars>>

\* A call with any pair of cursors, outside a stream.
ProbeCall ==
    /\ b_ret.kind = "none"
    /\ \E c \in InputCursors, e \in ExecutionCursors :
        LET ret == get_bootstrap_part(block_statuses, required, c, e)
        IN /\ b_cursor' = c
           /\ b_exec' = e
           /\ b_ret' = ret
           /\ chain' = FALSE
           /\ delivered' = << >>
           /\ barrier' = 0
           /\ UNCHANGED <<consensus_vars, ledger_vars, facade_vars, codec_vars>>

\* The client drops its stream (or its probe); the next call starts afresh.
EndStream ==
    /\ b_ret.kind # "none"
    /\ b_cursor' = Started
    /\ b_exec' = Started
    /\ b_ret' = NoCall
    /\ delivered' = << >>
    /\ chain' = FALSE
    /\ barrier' = 0
    /\ UNCHANGED <<consensus_vars, ledger_vars, facade_vars, codec_vars>>

\* ------------------------------------------------------- a whole stream
\* A bootstrap client pulls one stream while the execution cursor it is
\* given stays the same: b_exec is fixed from the start.
InitStreamCalls ==
    /\ b_cursor = Started
    /\ b_exec \in ExecutionCursors
    /\ b_ret = NoCall
    /\ delivered = << >>
    /\ chain = FALSE
    /\ barrier = 0

\* The first call of the stream carries Started.
StreamStart ==
    /\ b_ret.kind = "none"
    /\ LET ret == get_bootstrap_part(block_statuses, required, Started, b_exec)
       IN /\ b_cursor' = Started
          /\ b_ret' = ret
          /\ chain' = (ret.kind = "ok")
          /\ delivered' = ret.final_blocks
          /\ barrier' = BarrierAfter(ret, 0)
    /\ UNCHANGED <<b_exec, consensus_vars, ledger_vars, facade_vars, codec_vars>>

\* Each later call carries the cursor returned by the call before it; the
\* client stops calling once it was returned a Finished cursor or an error.
StreamContinue ==
    /\ b_ret.kind = "ok"
    /\ ~finished(b_ret.cursor)
    /\ LET ret == get_bootstrap_part(block_statuses, required, b_ret.cursor, b_exec)
       IN /\ b_cursor' = b_ret.cursor
          /\ b_ret' = ret
          /\ chain' = (ret.kind = "ok")
          /\ delivered' = delivered \o ret.final_blocks
          /\ barrier' = BarrierAfter(ret, barrier)
    /\ UNCHANGED <<b_exec, consensus_vars, ledger_vars, facade_vars, codec_vars>>

\* ------------------------------------------------- ConsensusControllerImpl
CommandBlockIds == 1..NumCommandBlocks

SubmitOps == {"RegisterBlock", "RegisterBlockHeader", "MarkInvalidBlock"}

\* ConsensusCommand values.
Commands == [type : SubmitOps, block_id : CommandBlockIds]

NoCommand == [type |-> "none", block_id |-> 0]

\* SyncSender::try_send on a bounded channel: never waits; answers
\* Disconnected when the receiver is gone, Full when the buffer is full.
try_send(queue, alive, cmd) ==
    IF ~alive THEN [queue |-> queue, result |-> "Disconnected"]
    ELSE IF Len(queue) >= CHANNEL_SIZE THEN [queue |-> queue, result |-> "Full"]
    ELSE [queue |-> Append(queue, cmd), result |-> "Ok"]

\* SyncSender::send on a bounded channel: waits while the buffer is full.
send(queue, alive, cmd) ==
    IF ~alive THEN [queue |-> queue, result |-> "Disconnected"]
    ELSE IF Len(queue) >= CHANNEL_SIZE THEN [queue |-> queue, result |-> "Blocked"]
    ELSE [queue |-> Append(queue, cmd), result |-> "Ok"]

\* Mutation of SubmitCommand: the blocking send in place of try_send.
SubmitCommand_Blocking(queue, alive, cmd) == send(queue, alive, cmd)

\* self.command_sender.try_send(ConsensusCommand::...)  (lines 201-208,
\* 212-214, 218-220)
SubmitCommand(queue, alive, cmd) == try_send(queue, alive, cmd)

\* let _ = ...: the Result of try_send is dropped, the method returns ().
SubmitReturn(sent) == "unit"

\* A controller method that submits cmd. The call completes unless the channel
\* operation has to wait.
Submit(cmd) ==
    LET sent == SubmitCommand(channel, receiver_alive, cmd)
    IN /\ sent.result # "Blocked"
       /\ channel' = sent.queue
       /\ f_op' = cmd.type
       /\ f_cmd' = cmd
       /\ f_sent' = sent.result
       /\ f_ret' = SubmitReturn(sent)
       /\ f_pre' = [channel |-> channel, receiver_alive |-> receiver_alive,
                    shared_state |-> shared_state]
       /\ UNCHANGED <<receiver_alive, shared_state>>
       /\ UNCHANGED <<ledger_vars, consensus_vars, bootstrap_vars, codec_vars>>

register_block ==
    \E block_id \in CommandBlockIds :
        Submit([type |-> "RegisterBlock", block_id |-> block_id])

register_block_header ==
    \E block_id \in CommandBlockIds :
        Submit([type |-> "RegisterBlockHeader", block_id |-> block_id])

mark_invalid_block ==
    \E block_id \in CommandBlockIds :
        Submit([type |-> "MarkInvalidBlock", block_id |-> block_id])

\* The consensus worker takes the oldest command and applies it to the shared
\* state (here: the set of block ids it has processed).
WorkerRecv ==
    /\ receiver_alive
    /\ channel # << >>
    /\ shared_state' = shared_state \cup {Head(channel).block_id}
    /\ channel' = Tail(channel)
    /\ f_op' = "recv"
    /\ f_cmd' = Head(channel)
    /\ f_sent' = "none"
    /\ f_ret' = "none"
    /\ f_pre' = [channel |-> channel, receiver_alive |-> receiver_alive,
                 shared_state |-> shared_state]
    /\ UNCHANGED receiver_alive
    /\ UNCHANGED <<ledger_vars, consensus_vars, bootstrap_vars, codec_vars>>

\* The worker terminates: the receiver and what it still buffered are dropped.
WorkerStop ==
    /\ receiver_alive
    /\ receiver_alive' = FALSE
    /\ channel' = << >>
    /\ f_op' = "stop"
    /\ f_cmd' = NoCommand
    /\ f_sent' = "none"
    /\ f_ret' = "none"
    /\ f_pre' = [channel |-> channel, receiver_alive |-> receiver_alive,
                 shared_state |-> shared_state]
    /\ UNCHANGED shared_state
    /\ UNCHANGED <<ledger_vars, consensus_vars, bootstrap_vars, codec_vars>>

InitFacade ==
    /\ channel = << >>
    /\ receiver_alive = TRUE
    /\ shared_state = {}
    /\ f_op = "none"
    /\ f_cmd = NoCommand
    /\ f_sent = "none"
    /\ f_ret = "none"
    /\ f_pre = [channel |-> << >>, receiver_alive |-> TRUE, shared_state |-> {}]

\* -------------------------------------------------------------------- codec
\* A buffer is a sequence of bytes (0..255).
\* U64VarIntSerializer: unsigned LEB128, seven bits per byte, low group first,
\* the top bit set on every byte but the last.
RECURSIVE U64VarIntSerializer(_)
U64VarIntSerializer(n) ==
    IF n < 128 THEN <<n>>
    ELSE <<128 + (n % 128)>> \o U64VarIntSerializer(n \div 128)

\* What a parser returns: Ok((rest, value)) or an error.
ParseOk(rest, value) == [ok |-> TRUE, rest |-> rest, value |-> value]

ParseErr == [ok |-> FALSE, rest |-> << >>, value |-> 0]

RECURSIVE U64VarIntDecode(_)
U64VarIntDecode(buffer) ==
    IF buffer = << >> THEN ParseErr
    ELSE IF Head(buffer) < 128 THEN ParseOk(Tail(buffer), Head(buffer))
    ELSE LET r == U64VarIntDecode(Tail(buffer))
         IN IF r.ok THEN ParseOk(r.rest, (Head(buffer) - 128) + 128 * r.value)
            ELSE ParseErr

\* U64VarIntDeserializer::new(Included(min), Included(max)).deserialize
U64VarIntDeserializer(min, max, buffer) ==
    LET r == U64VarIntDecode(buffer)
    IN IF r.ok /\ r.value >= min /\ r.value <= max THEN r ELSE ParseErr

\* Slot is a (period, thread) pair ordered by period first. Slot s of the model
\* has period s and thread (s - 1) % THREAD_COUNT.
SlotPeriod(slot) == slot

SlotThread(slot) == (slot - 1) % THREAD_COUNT

\* SlotSerializer: the period as a varint, then the thread as one byte.
SlotSerializer(slot) == U64VarIntSerializer(SlotPeriod(slot)) \o <<SlotThread(slot)>>

\* SlotDeserializer::new((Included(0), Included(u64::MAX)),
\*                       (Included(0), Excluded(thread_count)))
SlotDeserializer(thread_count, buffer) ==
    LET p == U64VarIntDecode(buffer)
    IN IF ~p.ok \/ p.rest = << >> THEN ParseErr
       ELSE LET thread == Head(p.rest)
            IN IF thread >= thread_count THEN ParseErr
               ELSE IF \E s \in Slots : SlotPeriod(s) = p.value /\ SlotThread(s) = thread
                    THEN ParseOk(Tail(p.rest),
                                 CHOOSE s \in Slots :
                                     SlotPeriod(s) = p.value /\ SlotThread(s) = thread)
                    ELSE ParseErr

\* Address::to_bytes: a fixed-width encoding, one byte wide in the model.
AddressToBytes(addr) == <<addr>>

AddressDeserializer(buffer) ==
    IF buffer = << >> THEN ParseErr ELSE ParseOk(Tail(buffer), Head(buffer))

\* AmountSerializer: the raw amount as a varint.
AmountSerializer(amount) == U64VarIntSerializer(amount)

\* AmountDeserializer::new(Included(Amount::MIN), Included(Amount::MAX))
AmountDeserializer(buffer) == U64VarIntDecode(buffer)

\* The order in which a PreHashMap is iterated is not specified; the model
\* takes it ascending or descending by address.
Max(S) == CHOOSE x \in S : \A y \in S : x >= y

NextInOrder(order, todo) == IF order = "ascending" THEN Min(todo) ELSE Max(todo)

\* for (addr, amount) in value  (lines 302-307)
RECURSIVE CreditsSerializerLoop(_, _, _)
CreditsSerializerLoop(value, order, todo) ==
    IF todo = {} THEN << >>
    ELSE LET addr == NextInOrder(order, todo)
         IN AddressToBytes(addr) \o AmountSerializer(value[addr])
                \o CreditsSerializerLoop(value, order, todo \ {addr})

\* Mutation of CreditsSerializer: the count prefix is not written.
CreditsSerializer_NoLength(value, order) ==
    CreditsSerializerLoop(value, order, DOMAIN value)

\* impl Serializer<PreHashMap<Address, Amount>> for CreditsSerializer
CreditsSerializer(value, order) ==
    U64VarIntSerializer(Cardinality(DOMAIN value))
        \o CreditsSerializerLoop(value, order, DOMAIN value)

\* for (slot, credits) in &value.credits  (lines 209-214): ascending slots.
RECURSIVE DeferredCreditsSerializerLoop(_, _, _)
DeferredCreditsSerializerLoop(credits, order, todo) ==
    IF todo = {} THEN << >>
    ELSE LET slot == Min(todo)
         IN SlotSerializer(slot) \o CreditsSerializer(credits[slot], order)
                \o DeferredCreditsSerializerLoop(credits, order, todo \ {slot})

\* impl Serializer<DeferredCredits> for DeferredCreditsSerializer: value.hash
\* is not written.
DeferredCreditsSerializer(value, order) ==
    U64VarIntSerializer(Cardinality(DOMAIN value.credits))
        \o DeferredCreditsSerializerLoop(value.credits, order, DOMAIN value.credits)

\* elements.into_iter().collect(): a later pair replaces an earlier one with
\* the same key.
RECURSIVE Collect(_, _)
Collect(elements, m) ==
    IF elements = << >> THEN m
    ELSE Collect(Tail(elements), MapPut(m, Head(elements)[1], Head(elements)[2]))

\* length_count body of CreditsDeserializer: count times (address, amount).
RECURSIVE CreditElements(_, _, _)
CreditElements(count, buffer, elements) ==
    IF count = 0 THEN ParseOk(buffer, elements)
    ELSE LET a == AddressDeserializer(buffer)
         IN IF ~a.ok THEN ParseErr
            ELSE LET m == AmountDeserializer(a.rest)
                 IN IF ~m.ok THEN ParseErr
                    ELSE CreditElements(count - 1, m.rest,
                                        Append(elements, <<a.value, m.value>>))

\* Mutation of CreditsDeserializer: the count is read without an upper bound.
CreditsDeserializer_Unbounded(max_credits_length, buffer) ==
    LET n == U64VarIntDecode(buffer)
    IN IF ~n.ok THEN ParseErr
       ELSE LET r == CreditElements(n.value, n.rest, << >>)
            IN IF r.ok THEN ParseOk(r.rest, Collect(r.value, EmptyMap)) ELSE ParseErr

\* impl Deserializer<PreHashMap<Address, Amount>> for CreditsDeserializer
CreditsDeserializer(max_credits_length, buffer) ==
    LET n == U64VarIntDeserializer(0, max_credits_length, buffer)
    IN IF ~n.ok THEN ParseErr
       ELSE LET r == CreditElements(n.value, n.rest, << >>)
            IN IF r.ok THEN ParseOk(r.rest, Collect(r.value, EmptyMap)) ELSE ParseErr

\* length_count body of DeferredCreditsDeserializer: count times (slot, credits).
RECURSIVE SlotElements(_, _, _, _)
SlotElements(cfg, count, buffer, elements) ==
    IF count = 0 THEN ParseOk(buffer, elements)
    ELSE LET s == SlotDeserializer(cfg.thread_count, buffer)
         IN IF ~s.ok THEN ParseErr
            ELSE LET c == CreditsDeserializer(cfg.max_credits_length, s.rest)
                 IN IF ~c.ok THEN ParseErr
                    ELSE SlotElements(cfg, count - 1, c.rest,
                                      Append(elements, <<s.value, c.value>>))

\* DeferredCreditsDeserializer::new(thread_count, max_credits_length): the one
\* max_credits_length bounds the slot count and every per-slot credit count.
DeferredCreditsDeserializerNew(thread_count, max_credits_length) ==
    [thread_count |-> thread_count, max_credits_length |-> max_credits_length]

\* Mutation of FromElements: the hash is recomputed from the decoded credits.
FromElements_Recomputed(elements) ==
    [credits |-> Collect(elements, EmptyMap),
     hash |-> RecomputeHash(Collect(elements, EmptyMap))]

\* The map closure (lines 264-267): the decoded pairs are collected and the
\* hash is set to the initial bytes.
FromElements(elements) ==
    [credits |-> Collect(elements, EmptyMap),
     hash |-> DEFERRED_CREDITS_HASH_INITIAL_BYTES]

\* impl Deserializer<DeferredCredits> for DeferredCreditsDeserializer
DeferredCreditsDeserializer(cfg, buffer) ==
    LET n == U64VarIntDeserializer(0, cfg.max_credits_length, buffer)
    IN IF ~n.ok THEN ParseErr
       ELSE LET r == SlotElements(cfg, n.value, n.rest, << >>)
            IN IF r.ok
               THEN ParseOk(r.rest, FromElements(r.value))
               ELSE ParseErr

\* --------------------------------------------------------------- codec steps
\* The hashes a ledger handed to the serializer may carry.
CodecHashes ==
    {DEFERRED_CREDITS_HASH_INITIAL_BYTES, SlotDigest(1),
     compute_single_credit_hash(1, MaxAmount)}

NoParse == [ok |-> FALSE, rest |-> << >>, value |-> 0]

NoCfg == DeferredCreditsDeserializerNew(0, 0)

\* Any ledger within the bounds, not yet serialized.
InitCodec ==
    /\ c_value \in [credits : CreditLedgers, hash : CodecHashes]
    /\ c_order \in {"ascending", "descending"}
    /\ c_buffer = << >>
    /\ c_cfg = NoCfg
    /\ c_result = NoParse
    /\ c_op = "none"

\* No codec traffic.
IdleCodec ==
    /\ c_value = DefaultDeferredCredits
    /\ c_order = "ascending"
    /\ c_buffer = << >>
    /\ c_cfg = NoCfg
    /\ c_result = NoParse
    /\ c_op = "none"

Serialize ==
    /\ c_op = "none"
    /\ c_buffer' = DeferredCreditsSerializer(c_value, c_order)
    /\ c_op' = "serialize"
    /\ UNCHANGED <<c_value, c_order, c_cfg, c_result>>
    /\ UNCHANGED <<ledger_vars, consensus_vars, bootstrap_vars, facade_vars>>

Deserialize ==
    /\ c_op = "serialize"
    /\ \E thread_count \in 1..THREAD_COUNT, max_credits_length \in 0..MaxCreditsLength :
          LET cfg == DeferredCreditsDeserializerNew(thread_count, max_credits_length)
          IN /\ c_cfg' = cfg
             /\ c_result' = DeferredCreditsDeserializer(cfg, c_buffer)
    /\ c_op' = "deserialize"
    /\ UNCHANGED <<c_value, c_order, c_buffer>>
    /\ UNCHANGED <<ledger_vars, consensus_vars, bootstrap_vars, facade_vars>>

\* ---------------------------------------------------------- specifications
NextFinalPath == FinalNestedReplace \/ RemoveZeros \/ Return

NextLedger == FinalNestedReplace \/ NestedReplace \/ RemoveZeros \/ Insert \/ Return

NextBootstrap == StartStream \/ ContinueStream \/ ProbeCall \/ EndStream

NextCodec == Serialize \/ Deserialize

NextStream == StreamStart \/ StreamContinue

NextController ==
    \/ register_block
    \/ register_block_header
    \/ mark_invalid_block
    \/ WorkerRecv
    \/ WorkerStop

\* A fresh ledger; no bootstrap stream is modelled.
InitLedgerOnly == InitLedger /\ IdleConsensus /\ InitBootstrapCalls /\ InitFacade /\ IdleCodec

\* Any consensus state within the bounds; the ledger stays at its default.
InitBootstrap == InitLedger /\ InitConsensus /\ InitBootstrapCalls /\ InitFacade /\ IdleCodec

\* The controller's channel and worker; ledger and consensus state stay put.
InitController == InitLedger /\ IdleConsensus /\ InitBootstrapCalls /\ InitFacade /\ IdleCodec

\* Any bounded ledger is serialized, then deserialized under any parameters.
InitCodecOnly == InitLedger /\ IdleConsensus /\ InitBootstrapCalls /\ InitFacade /\ InitCodec

SpecFinalPath == InitLedgerOnly /\ [][NextFinalPath]_vars

SpecLedger == InitLedgerOnly /\ [][NextLedger]_vars

SpecBootstrap == InitBootstrap /\ [][NextBootstrap]_vars

SpecController == InitController /\ [][NextController]_vars

SpecCodec == InitCodecOnly /\ [][NextCodec]_vars

\* Any consensus state and any fixed execution cursor; the client keeps
\* calling while it has a call to make.
InitStream == InitLedger /\ InitConsensus /\ InitStreamCalls /\ InitFacade /\ IdleCodec

SpecStream == InitStream /\ [][NextStream]_vars /\ WF_vars(NextStream)

\* ------------------------------------------------------------ ledger claims
SingleCredit(slot, addr, amount) ==
    [s \in {slot} |-> [a \in {addr} |-> amount]]

\* C1: from an empty DeferredCredits, after any sequence of final-path
\* operations (final_nested_replace, remove_zeros) the stored hash equals the
\* hash recomputed from scratch over the credits present.
C1_HashEqualsRecomputed == dc.hash = RecomputeHash(dc.credits)

\* C2: hash order-independence. pre is a ledger, arg.other a first delta and
\* d2 any second delta: applying the two with final_nested_replace in the order
\* (arg.other, d2) and in the order (d2, arg.other), whenever both orders end in
\* the same credits map, ends in the same hash.
C2_OrderIndependentHash ==
    op = "final_nested_replace" =>
        \A d2 \in Deltas :
            LET first_then_second == final_nested_replace(dc, d2)
                second_then_first ==
                    final_nested_replace(final_nested_replace(pre, d2), arg.other)
            IN first_then_second.credits = second_then_first.credits
                   => first_then_second.hash = second_then_first.hash

\* C3: hash reversibility. When the ledger held (slot, address) = a and
\* final_nested_replace has set it to b with a one-credit delta, calling
\* final_nested_replace with the delta setting it back to a restores the hash
\* the ledger had before the first call.
C3_ReversibleHash ==
    \A slot \in Slots, addr \in Addresses, b \in Amounts :
        ( /\ op = "final_nested_replace"
          /\ arg.other = SingleCredit(slot, addr, b)
          /\ slot \in DOMAIN pre.credits
          /\ addr \in DOMAIN pre.credits[slot] )
        => final_nested_replace(dc, SingleCredit(slot, addr, pre.credits[slot][addr])).hash
               = pre.hash

\* C4: zero-pruning. Right after remove_zeros no slot maps to an empty credit
\* map, every remaining amount is non-zero, and every non-zero credit held
\* before the call is still held with the same amount.
C4_ZeroPruning ==
    op = "remove_zeros" =>
        /\ \A s \in DOMAIN dc.credits :
              /\ dc.credits[s] # EmptyMap
              /\ \A a \in DOMAIN dc.credits[s] : dc.credits[s][a] # 0
        /\ \A s \in DOMAIN pre.credits :
              \A a \in DOMAIN pre.credits[s] :
                  pre.credits[s][a] # 0 =>
                      /\ s \in DOMAIN dc.credits
                      /\ a \in DOMAIN dc.credits[s]
                      /\ dc.credits[s][a] = pre.credits[s][a]

\* C4 witness: remove_zeros has run on a ledger with a slot already mapped to
\* an empty credit map and a slot holding a zero and a non-zero credit; the
\* first was dropped and the second kept.
C4_Witness ==
    /\ op = "remove_zeros"
    /\ \E s1 \in DOMAIN pre.credits, s2 \in DOMAIN pre.credits :
          /\ pre.credits[s1] = EmptyMap
          /\ \E a \in DOMAIN pre.credits[s2] : pre.credits[s2][a] = 0
          /\ \E a \in DOMAIN pre.credits[s2] : pre.credits[s2][a] # 0
          /\ s1 \notin DOMAIN dc.credits
          /\ s2 \in DOMAIN dc.credits

\* Second C4 case reached: a slot whose credits were all zero is dropped.
C4_AllZeroSlotDropped ==
    /\ op = "remove_zeros"
    /\ \E s \in DOMAIN pre.credits :
          /\ pre.credits[s] # EmptyMap
          /\ \A a \in DOMAIN pre.credits[s] : pre.credits[s][a] = 0
          /\ s \notin DOMAIN dc.credits

\* --------------------------------------------------------- bootstrap claims
\* A finalized required block: listed by list_required_active_blocks, Active
\* in block_statuses, and final.
FinalRequired(b) ==
    /\ \E i \in 1..Len(required) : required[i] = b
    /\ b \in DOMAIN block_statuses
    /\ block_statuses[b].status = "Active"
    /\ block_statuses[b].is_final

\* The blocks eligible for a cursor, in the order they are listed: the
\* finalized required blocks, all of them for Started, those with a slot
\* strictly greater than s for Ongoing(s), none for Finished.
EligibleBlocks(cursor) ==
    SelectSeq(required,
              LAMBDA b : /\ FinalRequired(b)
                         /\ \/ cursor.tag = "Started"
                            \/ cursor.tag = "Ongoing" /\ block_statuses[b].slot > cursor.slot)

Batch == b_ret.final_blocks

BatchSlot(i) == block_statuses[Batch[i]].slot

\* The execution cursor is Finished(Some(s)) with s the slot of one of the
\* first n eligible blocks of the call.
BarrierWithin(n) ==
    /\ b_exec.tag = "Finished"
    /\ b_exec.some
    /\ \E i \in 1..Len(EligibleBlocks(b_cursor)) :
          /\ i <= n
          /\ block_statuses[EligibleBlocks(b_cursor)[i]].slot = b_exec.slot

\* C5 as stated: the batch never exceeds the cap, and whenever more blocks are
\* eligible than the cap the batch is exactly the first cap eligible blocks
\* and the returned cursor is Ongoing(slot of the last block of the batch).
C5_BatchCapAsStated ==
    b_ret.kind = "ok" =>
        /\ Len(Batch) <= MAX_BOOTSTRAP_BLOCKS
        /\ Len(EligibleBlocks(b_cursor)) > MAX_BOOTSTRAP_BLOCKS =>
              /\ Batch = SubSeq(EligibleBlocks(b_cursor), 1, MAX_BOOTSTRAP_BLOCKS)
              /\ b_ret.cursor = Ongoing(BatchSlot(MAX_BOOTSTRAP_BLOCKS))

\* C5 amended: the batch never exceeds the cap; whenever more blocks are
\* eligible than the cap and the execution cursor is not Finished(Some(s)) with
\* s the slot of one of the first cap eligible blocks, the batch is exactly the
\* first cap eligible blocks, the returned cursor is Ongoing(slot of the last
\* block of the batch), and a call with that cursor starts its batch with the
\* eligible block right after it.
C5_BatchCap ==
    b_ret.kind = "ok" =>
        /\ Len(Batch) <= MAX_BOOTSTRAP_BLOCKS
        /\ ( /\ Len(EligibleBlocks(b_cursor)) > MAX_BOOTSTRAP_BLOCKS
             /\ ~BarrierWithin(MAX_BOOTSTRAP_BLOCKS) ) =>
              /\ Batch = SubSeq(EligibleBlocks(b_cursor), 1, MAX_BOOTSTRAP_BLOCKS)
              /\ b_ret.cursor = Ongoing(BatchSlot(MAX_BOOTSTRAP_BLOCKS))
              /\ \A e \in ExecutionCursors :
                    LET next == get_bootstrap_part(block_statuses, required,
                                                   b_ret.cursor, e)
                    IN /\ next.kind = "ok"
                       /\ Len(next.final_blocks) >= 1
                       /\ next.final_blocks[1] =
                              EligibleBlocks(b_cursor)[MAX_BOOTSTRAP_BLOCKS + 1]

\* C5 witness: the third call of a stream over five finalized blocks at slots
\* 1..5 with cap 2: [1,2]/Ongoing(2), [3,4]/Ongoing(4), then [5].
C5_Witness ==
    /\ chain
    /\ Len(EligibleBlocks(Started)) > 2 * MAX_BOOTSTRAP_BLOCKS
    /\ Len(delivered) = 2 * MAX_BOOTSTRAP_BLOCKS + 1
    /\ b_cursor = Ongoing(block_statuses[delivered[2 * MAX_BOOTSTRAP_BLOCKS]].slot)
    /\ Len(Batch) = 1

\* C6 as stated: a call with a Finished cursor returns an empty batch and the
\* same Finished cursor.
C6_FinishedSameCursor ==
    (b_ret.kind # "none" /\ finished(b_cursor)) =>
        /\ b_ret.kind = "ok"
        /\ Batch = << >>
        /\ b_ret.cursor = b_cursor

\* C6 amended: a call with a Finished cursor (Finished(None) or
\* Finished(Some(s))), with any execution cursor and any consensus state,
\* returns an empty batch and the cursor Finished(None).
C6_FinishedReturnsFinishedNone ==
    (b_ret.kind # "none" /\ finished(b_cursor)) =>
        /\ b_ret.kind = "ok"
        /\ Batch = << >>
        /\ b_ret.cursor = FinishedNone

\* C6 witness: a call made with Finished(Some(s)) while finalized required
\* blocks exist.
C6_Witness ==
    /\ b_ret.kind = "ok"
    /\ finished(b_cursor)
    /\ b_cursor.some
    /\ \E b \in BlockIds : FinalRequired(b)

\* The execution cursor is Finished(Some(s)) and a finalized required block
\* sits at slot s.
ExecutionFinishedAtBlock ==
    /\ b_exec.tag = "Finished"
    /\ b_exec.some
    /\ \E b \in BlockIds : FinalRequired(b) /\ block_statuses[b].slot = b_exec.slot

\* C7 as stated: with the execution cursor Finished(Some(s)) and a finalized
\* required block at slot s, a call with a non-Finished cursor returns
\* Finished(Some(s)) and no block of the batch has a slot greater than s.
C7_BarrierAsStated ==
    (b_ret.kind # "none" /\ ~finished(b_cursor) /\ ExecutionFinishedAtBlock) =>
        /\ b_ret.kind = "ok"
        /\ b_ret.cursor = FinishedSome(b_exec.slot)
        /\ \A i \in 1..Len(Batch) : BatchSlot(i) <= b_exec.slot

\* C7 amended: with the execution cursor Finished(Some(s)), if the finalized
\* required block at slot s is among the first cap blocks eligible for the
\* (non-Finished) cursor of the call, the call returns Finished(Some(s)), the
\* batch ends with that block and holds no block with a slot greater than s,
\* every call made with the returned cursor returns an empty batch and a
\* Finished cursor, and no batch of the stream so far holds a block with a
\* slot greater than s once the stream has returned Finished(Some(s)).
C7_Barrier ==
    /\ (b_ret.kind # "none" /\ ~finished(b_cursor)
            /\ BarrierWithin(MAX_BOOTSTRAP_BLOCKS)) =>
          /\ b_ret.kind = "ok"
          /\ b_ret.cursor = FinishedSome(b_exec.slot)
          /\ Len(Batch) >= 1
          /\ BatchSlot(Len(Batch)) = b_exec.slot
          /\ \A i \in 1..Len(Batch) : BatchSlot(i) <= b_exec.slot
          /\ \A e \in ExecutionCursors :
                LET later == get_bootstrap_part(block_statuses, required,
                                                b_ret.cursor, e)
                IN later.final_blocks = << >> /\ finished(later.cursor)
    /\ (chain /\ barrier > 0) =>
          \A i \in 1..Len(delivered) : block_statuses[delivered[i]].slot <= barrier

\* C7 witness: a stream returned Finished(Some(s)) after more than one block,
\* a later call fed the finished cursor back, and a finalized required block
\* with a slot greater than s exists.
C7_Witness ==
    /\ chain
    /\ barrier > 0
    /\ finished(b_cursor)
    /\ Len(delivered) >= 2
    /\ \E b \in BlockIds : FinalRequired(b) /\ block_statuses[b].slot > barrier

\* C8: along a stream that starts at Started and feeds each returned cursor
\* into the next call, each batch and the concatenation of the batches are in
\* strictly ascending slot order (so no block is delivered twice), only
\* finalized required blocks are delivered, and no finalized required block
\* with a slot below the last delivered slot is skipped.
C8_ExactlyOnce ==
    chain =>
        /\ \A i \in 1..Len(Batch) : \A j \in 1..Len(Batch) :
              i < j => BatchSlot(i) < BatchSlot(j)
        /\ \A i \in 1..Len(delivered) : \A j \in 1..Len(delivered) :
              i < j => block_statuses[delivered[i]].slot
                           < block_statuses[delivered[j]].slot
        /\ \A i \in 1..Len(delivered) : FinalRequired(delivered[i])
        /\ \A b \in BlockIds :
              ( /\ FinalRequired(b)
                /\ Len(delivered) >= 1
                /\ block_statuses[b].slot
                       < block_statuses[delivered[Len(delivered)]].slot )
              => \E i \in 1..Len(delivered) : delivered[i] = b

\* C8 witness: a stream in its third call or later has delivered more blocks
\* than two batches hold, around a listed block that is not finalized.
C8_Witness ==
    /\ chain
    /\ Len(delivered) > MAX_BOOTSTRAP_BLOCKS
    /\ b_cursor.tag = "Ongoing"
    /\ Len(Batch) >= 1
    /\ \E b \in BlockIds :
          /\ ~FinalRequired(b)
          /\ \E i \in 1..Len(required) : required[i] = b
          /\ b < delivered[Len(delivered)]

\* C9: a call with a non-Finished cursor, when list_required_active_blocks
\* returns an identifier whose entry in block_statuses is missing or not
\* Active, returns the ContainerInconsistency error.
C9_ContainerInconsistency ==
    ( /\ b_ret.kind # "none"
      /\ ~finished(b_cursor)
      /\ \E i \in 1..Len(required) :
            \/ required[i] \notin DOMAIN block_statuses
            \/ block_statuses[required[i]].status # "Active" )
    => b_ret.kind = "err"

\* -------------------------------------------------------- controller claims
\* C10: register_block, register_block_header and mark_invalid_block always
\* return without waiting and without reporting an error; when the channel is
\* full or its receiver is gone the command is dropped and the queue and the
\* shared state are as before; when the channel has room exactly one copy of
\* the command is appended to the queue and the shared state is as before.
C10_BestEffortSubmission ==
    /\ ENABLED register_block
    /\ ENABLED register_block_header
    /\ ENABLED mark_invalid_block
    /\ f_op \in SubmitOps =>
          /\ f_ret = "unit"
          /\ f_cmd.type = f_op
          /\ shared_state = f_pre.shared_state
          /\ receiver_alive = f_pre.receiver_alive
          /\ IF ~f_pre.receiver_alive \/ Len(f_pre.channel) >= CHANNEL_SIZE
             THEN channel = f_pre.channel
             ELSE channel = Append(f_pre.channel, f_cmd)

\* C10 witness: a command was submitted to a full channel with a live
\* receiver, and dropped.
C10_Witness ==
    /\ f_op \in SubmitOps
    /\ f_pre.receiver_alive
    /\ Len(f_pre.channel) = CHANNEL_SIZE
    /\ f_sent = "Full"
    /\ channel = f_pre.channel

\* C10, second case reached: a command submitted after the worker terminated.
C10_WitnessDisconnected ==
    /\ f_op \in SubmitOps
    /\ ~f_pre.receiver_alive
    /\ f_sent = "Disconnected"
    /\ shared_state # {}

\* -------------------------------------------------------------- codec claims
\* The ledger handed to the serializer is within what the deserializer was
\* given: slot count and every per-slot credit count at most
\* max_credits_length.
WithinLengths ==
    /\ Cardinality(DOMAIN c_value.credits) <= c_cfg.max_credits_length
    /\ \A s \in DOMAIN c_value.credits :
          Cardinality(DOMAIN c_value.credits[s]) <= c_cfg.max_credits_length

ThreadsInRange ==
    \A s \in DOMAIN c_value.credits : SlotThread(s) < c_cfg.thread_count

\* C11: codec round-trip. When a ledger whose slot count and per-slot credit
\* counts are within the deserializer's bound, and whose slots have a thread
\* below thread_count, has been serialized and the bytes deserialized, the
\* deserializer succeeds, leaves no byte unread, and yields the credits map
\* that was serialized.
C11_RoundTrip ==
    (c_op = "deserialize" /\ WithinLengths /\ ThreadsInRange) =>
        /\ c_result.ok
        /\ c_result.rest = << >>
        /\ c_result.value.credits = c_value.credits

\* C11 witness: a round trip of a ledger with two slots, one of them holding
\* two credits written in descending address order, under a bound that is met
\* exactly.
C11_Witness ==
    /\ c_op = "deserialize"
    /\ WithinLengths
    /\ ThreadsInRange
    /\ c_order = "descending"
    /\ Cardinality(DOMAIN c_value.credits) = 2
    /\ c_cfg.max_credits_length = 2
    /\ \E s \in DOMAIN c_value.credits : Cardinality(DOMAIN c_value.credits[s]) = 2
    /\ c_result.ok
    /\ c_result.value.credits = c_value.credits

\* C12: codec bound enforcement. When the serialized ledger has more slots
\* than max_credits_length, or some slot with more credits than
\* max_credits_length, deserialize returns an error and no ledger.
C12_BoundEnforcement ==
    (c_op = "deserialize" /\ ~WithinLengths) => ~c_result.ok

\* C12 witness: the slot count is within the bound, one slot holds more
\* credits than the bound, and deserialize has failed.
C12_Witness ==
    /\ c_op = "deserialize"
    /\ Cardinality(DOMAIN c_value.credits) <= c_cfg.max_credits_length
    /\ \E s \in DOMAIN c_value.credits :
          Cardinality(DOMAIN c_value.credits[s]) > c_cfg.max_credits_length
    /\ ThreadsInRange
    /\ ~c_result.ok

\* Second C12 case reached: the slot count alone exceeds the bound.
C12_WitnessSlotCount ==
    /\ c_op = "deserialize"
    /\ Cardinality(DOMAIN c_value.credits) > c_cfg.max_credits_length
    /\ \A s \in DOMAIN c_value.credits :
          Cardinality(DOMAIN c_value.credits[s]) <= c_cfg.max_credits_length
    /\ ThreadsInRange
    /\ ~c_result.ok

\* ----------------------------------------------------- ledger claims, cont.
\* C13: speculative operations leave the digest alone. Right after insert or
\* nested_replace the hash is the one held before the call; right after
\* insert(addr, slot, amount) every credit other than (slot, addr) reads as it
\* did before, and get_address_deferred_credit_for_slot(addr, slot) returns
\* Some(amount).
C13_SpeculativeFrame ==
    /\ op \in {"insert", "nested_replace"} => dc.hash = pre.hash
    /\ op = "insert" =>
          /\ \A s \in Slots, a \in Addresses :
                (s # arg.slot \/ a # arg.addr) =>
                    get_address_deferred_credit_for_slot(dc, a, s)
                        = get_address_deferred_credit_for_slot(pre, a, s)
          /\ get_address_deferred_credit_for_slot(dc, arg.addr, arg.slot)
                 = Some(arg.amount)

\* C13 witness: insert has overwritten a credit with another amount in a
\* ledger whose hash is not the baseline and which holds another credit.
C13_Witness ==
    /\ op = "insert"
    /\ pre.hash # DEFERRED_CREDITS_HASH_INITIAL_BYTES
    /\ get_address_deferred_credit_for_slot(pre, arg.addr, arg.slot).some
    /\ get_address_deferred_credit_for_slot(pre, arg.addr, arg.slot) # Some(arg.amount)
    /\ \E s \in Slots, a \in Addresses :
          /\ (s # arg.slot \/ a # arg.addr)
          /\ get_address_deferred_credit_for_slot(pre, a, s).some

\* Second C13 case reached: nested_replace has changed the credits of a ledger
\* whose hash is not the baseline.
C13_WitnessNestedReplace ==
    /\ op = "nested_replace"
    /\ pre.hash # DEFERRED_CREDITS_HASH_INITIAL_BYTES
    /\ dc.credits # pre.credits

C15_PerCreditHashUpdate ==
    \A slot \in Slots, addr \in Addresses, new \in Amounts :
        ( /\ op = "final_nested_replace"
          /\ arg.other = SingleCredit(slot, addr, new)
          /\ slot \in DOMAIN pre.credits )
        => dc.hash =
               IF addr \in DOMAIN pre.credits[slot]
               THEN HashXor(pre.hash,
                            HashXor(compute_single_credit_hash(addr, pre.credits[slot][addr]),
                                    compute_single_credit_hash(addr, new)))
               ELSE HashXor(pre.hash, compute_single_credit_hash(addr, new))

\* C16: brand-new slot. When final_nested_replace has processed a delta of one
\* slot that self did not hold, the hash is the hash before combined with the
\* slot's aggregate digest: digest(slot) and digest(address, amount) of every
\* credit inserted for it.
C16_NewSlotHash ==
    \A slot \in Slots :
        ( /\ op = "final_nested_replace"
          /\ DOMAIN arg.other = {slot}
          /\ slot \notin DOMAIN pre.credits )
        => dc.hash = HashXor(pre.hash, compute_slot_credits_hash(slot, arg.other[slot]))

\* C17: remove_zeros preserves the hash invariant. If the hash equalled the
\* from-scratch combination over the slots and credits held before
\* remove_zeros, it equals the from-scratch combination over those that remain.
C17_RemoveZerosKeepsInvariant ==
    (op = "remove_zeros" /\ pre.hash = RecomputeHash(pre.credits))
        => dc.hash = RecomputeHash(dc.credits)

\* ------------------------------------------------- bootstrap claims, cont.
\* C18: cursor progress is monotonic. A call with a non-Finished cursor that
\* returns Ok returns the cursor it was given exactly when the batch is empty;
\* otherwise it returns Ongoing(s') or Finished(Some(s')) with s' the slot of
\* the last block of the batch, and s' > s when the cursor given was
\* Ongoing(s). It never returns Started for an Ongoing cursor.
C18_CursorMonotonic ==
    (b_ret.kind = "ok" /\ ~finished(b_cursor)) =>
        /\ (b_ret.cursor = b_cursor) <=> (Batch = << >>)
        /\ Batch # << >> =>
              /\ b_ret.cursor.tag \in {"Ongoing", "Finished"}
              /\ b_ret.cursor.some
              /\ b_ret.cursor.slot = BatchSlot(Len(Batch))
              /\ b_cursor.tag = "Ongoing" => b_ret.cursor.slot > b_cursor.slot
        /\ b_cursor.tag = "Ongoing" => b_ret.cursor.tag # "Started"

\* C18 witness: a call given Ongoing(s) delivered more than one block and
\* returned Ongoing(s') with s' > s + 1.
C18_Witness ==
    /\ b_ret.kind = "ok"
    /\ b_cursor.tag = "Ongoing"
    /\ Len(Batch) >= 2
    /\ b_ret.cursor.tag = "Ongoing"
    /\ b_ret.cursor.slot > b_cursor.slot + 1

\* Second C18 case reached: a call given Ongoing(s) with nothing left to send
\* returned Ongoing(s) and an empty batch.
C18_WitnessEmptyBatch ==
    /\ b_ret.kind = "ok"
    /\ b_cursor.tag = "Ongoing"
    /\ b_cursor.slot >= 1
    /\ Batch = << >>
    /\ b_ret.cursor = b_cursor

\* C20: Finished is produced only by the barrier. A call with a non-Finished
\* cursor returns a Finished cursor only if the execution cursor is
\* Finished(Some(s)) and the last block of the batch has slot s; when the
\* execution cursor is Started, Ongoing or Finished(None), when no eligible
\* block sits at slot s, or when the batch is empty, the returned cursor is
\* Started or Ongoing; and an empty batch comes with the cursor given.
C20_FinishedOnlyByBarrier ==
    (b_ret.kind = "ok" /\ ~finished(b_cursor)) =>
        /\ finished(b_ret.cursor) =>
              /\ b_exec.tag = "Finished"
              /\ b_exec.some
              /\ Batch # << >>
              /\ BatchSlot(Len(Batch)) = b_exec.slot
              /\ b_ret.cursor = FinishedSome(b_exec.slot)
        /\ ( \/ b_exec.tag # "Finished"
             \/ ~b_exec.some
             \/ ~BarrierWithin(Len(EligibleBlocks(b_cursor)))
             \/ Batch = << >> ) =>
              b_ret.cursor.tag \in {"Started", "Ongoing"}
        /\ Batch = << >> => b_ret.cursor = b_cursor

\* C20 witness: the execution cursor is Finished(Some(s)), blocks were
\* delivered, no eligible block sits at slot s, and the call returned Ongoing.
C20_Witness ==
    /\ b_ret.kind = "ok"
    /\ ~finished(b_cursor)
    /\ b_exec.tag = "Finished"
    /\ b_exec.some
    /\ ~BarrierWithin(Len(EligibleBlocks(b_cursor)))
    /\ Len(Batch) >= 1
    /\ b_ret.cursor.tag = "Ongoing"

\* Second C20 case reached: a call returned Finished(Some(s)) at the barrier
\* after more than one block.
C20_WitnessBarrier ==
    /\ b_ret.kind = "ok"
    /\ ~finished(b_cursor)
    /\ finished(b_ret.cursor)
    /\ Len(Batch) >= 2

\* Third C20 case reached: the execution cursor is Finished(None) and blocks
\* were delivered.
C20_WitnessFinishedNone ==
    /\ b_ret.kind = "ok"
    /\ ~finished(b_cursor)
    /\ b_exec = FinishedNone
    /\ Len(Batch) >= 1
    /\ b_ret.cursor.tag = "Ongoing"

\* ------------------------------------------------------ codec claims, cont.
\* C19: deserialization does not restore the digest. Every ledger returned by
\* a successful deserialize carries the hash of DeferredCredits::default(),
\* whatever credits it holds and whatever hash the serialized ledger had.
C19_DeserializedHashIsBaseline ==
    (c_op = "deserialize" /\ c_result.ok) =>
        c_result.value.hash = DefaultDeferredCredits.hash

\* C19 witness: a ledger holding credits and a hash other than the baseline
\* was serialized and deserialized successfully.
C19_Witness ==
    /\ c_op = "deserialize"
    /\ c_result.ok
    /\ c_value.hash # DefaultDeferredCredits.hash
    /\ c_result.value.credits # EmptyMap
    /\ \E s \in DOMAIN c_result.value.credits : c_result.value.credits[s] # EmptyMap

\* ------------------------------------------------- bootstrap claims, cont.
\* C21: stream termination under the barrier. On an unchanged consensus state
\* whose finalized required blocks are listed in ascending slot order, when
\* the execution cursor is Finished(Some(s)) and a finalized required block
\* sits at slot s, a stream that starts at Started and feeds each returned
\* cursor into the next call is eventually returned Finished(Some(s)).
C21_StreamTerminates ==
    (b_ret.kind = "none" /\ ExecutionFinishedAtBlock)
        ~> (b_ret.kind = "ok" /\ b_ret.cursor = FinishedSome(b_exec.slot))

\* C21 witness: a stream was returned Finished(Some(s)) in its third call or
\* later, more blocks than two full batches preceding slot s.
C21_Witness ==
    /\ chain
    /\ ExecutionFinishedAtBlock
    /\ b_ret.cursor = FinishedSome(b_exec.slot)
    /\ Len(delivered) > 2 * MAX_BOOTSTRAP_BLOCKS
    /\ b_cursor.tag = "Ongoing"

====
